---- MODULE Spec2Model ----
(***************************************************************************)
(* Verification model of the COVID-19 vaccination / infection analysis     *)
(* pipeline: main.py drives extract_data -> process_data -> analyze ->     *)
(* generate_html.                                                          *)
(*                                                                         *)
(* Conventions                                                             *)
(*   - a calendar date is an integer day number; day 7, 14, ... are        *)
(*     Sundays, the label pandas gives a 'W' resampling bin;               *)
(*   - a nullable integer cell is <<>> (NaN) or <<v>>;                     *)
(*   - a float is <<>> (NaN) or an exact fraction <<num, den>>, den > 0,   *)
(*     in lowest terms (rounding of binary floats is not modelled);        *)
(*   - a square root is kept as the fraction under the root;               *)
(*   - a table is [cols |-> set of column names, rows |-> sequence];       *)
(*   - a call returns [raised |-> "none", ...] or the name of the Python   *)
(*     exception it raises in [raised |-> name].                           *)
(***************************************************************************)
EXTENDS Integers, Sequences, FiniteSets, TLC

VARIABLES
    pc,               \* control point of the running program / harness
    save_raw,         \* save_raw argument of extract_all_data
    country,          \* configured country (COUNTRY of main)
    owid_df,          \* raw OWID table
    who_df,           \* raw WHO table
    nyt_df,           \* raw NYT table
    df,               \* merged table handed to the estimator
    processed,        \* the other tables process_all_data returns and writes
    threshold,        \* vaccination threshold of the estimator call
    analysis_results, \* sections computed so far (name -> section)
    chart_data,       \* result of prepare_chart_data
    report,           \* results/analysis_results.json, as parsed back
    raised,           \* exception in flight or caught ("none" when none)
    fetched,          \* per source: number of fetches issued
    rawFiles,         \* raw files written under data/raw
    stages,           \* stage bodies entered, in order
    printed,          \* messages printed by exception handlers and the summary
    handled,          \* number of times main's except clause ran
    exitStatus        \* process exit status (-1 while running)

vars == <<pc, save_raw, country, owid_df, who_df, nyt_df, df, processed, threshold, analysis_results,
          chart_data, report, raised, fetched, rawFiles, stages, printed, handled,
          exitStatus>>

-----------------------------------------------------------------------------
(* Bounds of the model *)

MaxRows == 3
MaxPV == 3
Population == 2
MaxOwidRows == 2
MaxWhoRows == 1
MaxNytRows == 2
MaxFetchedRows == 1

-----------------------------------------------------------------------------
(* Numbers *)

NaN == <<>>

IsNaN(x) == x = <<>>

Abs(n) == IF n < 0 THEN -n ELSE n

RECURSIVE GCD(_, _)
GCD(a, b) == IF b = 0 THEN a ELSE GCD(b, a % b)

\* The fraction n/d (d > 0) in lowest terms.
Frac(n, d) ==
    LET g == GCD(Abs(n), d)
    IN  <<n \div g, d \div g>>

Zero == <<0, 1>>
One == <<1, 1>>

RAdd(a, b) ==
    IF IsNaN(a) \/ IsNaN(b) THEN NaN
    ELSE Frac(a[1] * b[2] + b[1] * a[2], a[2] * b[2])

RSub(a, b) ==
    IF IsNaN(a) \/ IsNaN(b) THEN NaN
    ELSE Frac(a[1] * b[2] - b[1] * a[2], a[2] * b[2])

RMul(a, b) ==
    IF IsNaN(a) \/ IsNaN(b) THEN NaN
    ELSE Frac(a[1] * b[1], a[2] * b[2])

\* a / n for a positive integer n
RDivInt(a, n) == IF IsNaN(a) THEN NaN ELSE Frac(a[1], a[2] * n)

\* Comparisons with a NaN operand are False, as in IEEE / numpy.
RGeq(a, b) == ~IsNaN(a) /\ ~IsNaN(b) /\ a[1] * b[2] >= b[1] * a[2]
RLt(a, b) == ~IsNaN(a) /\ ~IsNaN(b) /\ a[1] * b[2] < b[1] * a[2]
RGt(a, b) == RLt(b, a)

RECURSIVE SumInts(_)
SumInts(s) == IF s = <<>> THEN 0 ELSE Head(s) + SumInts(Tail(s))

RECURSIVE SumFracs(_)
SumFracs(s) == IF s = <<>> THEN Zero ELSE RAdd(Head(s), SumFracs(Tail(s)))

\* pandas Series.mean(): NaN on an empty series
MeanInts(s) == IF s = <<>> THEN NaN ELSE Frac(SumInts(s), Len(s))
MeanFracs(s) == IF s = <<>> THEN NaN ELSE RDivInt(SumFracs(s), Len(s))

\* pandas Series.var() (ddof = 1): NaN with fewer than two values
VarInts(s) ==
    LET n == Len(s)
        sq == [i \in 1..n |-> s[i] * s[i]]
    IN  IF n < 2 THEN NaN
        ELSE Frac(n * SumInts(sq) - SumInts(s) * SumInts(s), n * (n - 1))

Column(rows, f) == [i \in 1..Len(rows) |-> rows[i][f]]

-----------------------------------------------------------------------------
(* process_data.py *)

\* main.py: SAVE_RAW = True
SAVE_RAW == TRUE

US == "United States"
USA == "United States of America"

OwidCols == {"location", "date", "new_cases", "people_vaccinated", "population"}
WhoCols == {"Country", "Date_reported", "New_cases"}
NytCols == {"date", "cases"}

country_mapping(c) ==
    IF c \in {US, "USA"} THEN [owid_name |-> US, who_name |-> USA]
    ELSE [owid_name |-> c, who_name |-> c]

filter_country_data(owid, who, c) ==
    LET m == country_mapping(c)
        IsOwid(r) == r.location = m.owid_name
        IsWho(r) == r.Country = m.who_name
    IN  IF "location" \notin owid.cols \/ "Country" \notin who.cols
        THEN [raised |-> "KeyError"]
        ELSE [raised |-> "none",
              owid_filtered |-> [cols |-> owid.cols, rows |-> SelectSeq(owid.rows, IsOwid)],
              who_filtered |-> [cols |-> who.cols, rows |-> SelectSeq(who.rows, IsWho)]]

\* Series.ffill(): the last non-missing value at or above row i, in row order
RECURSIVE Ffill(_, _)
Ffill(col, i) ==
    IF i = 0 THEN NaN
    ELSE IF ~IsNaN(col[i]) THEN col[i]
    ELSE Ffill(col, i - 1)

\* people_vaccinated / population followed by fillna(0)
VaccinationRate(pv, pop) ==
    IF IsNaN(pv) \/ IsNaN(pop) THEN Zero
    ELSE IF pop[1] = 0 THEN (IF pv[1] = 0 THEN Zero ELSE <<1, 0>>)
    ELSE Frac(pv[1], pop[1])

Indicator(cases) == IF ~IsNaN(cases) /\ cases[1] > 0 THEN 1 ELSE 0

clean_owid_data(t) ==
    IF {"date", "people_vaccinated", "new_cases"} \subseteq t.cols
    THEN LET hasRate == "population" \in t.cols
             pvs == Column(t.rows, "people_vaccinated")
             CleanRow(i) ==
                 LET r == t.rows[i]
                     pv == Ffill(pvs, i)
                     nc == IF IsNaN(r.new_cases) THEN <<0>> ELSE r.new_cases
                 IN  [date |-> r.date,
                      new_cases |-> nc,
                      people_vaccinated |-> pv,
                      vaccination_rate |-> IF hasRate THEN VaccinationRate(pv, r.population)
                                           ELSE NaN,
                      I |-> Indicator(nc)]
         IN  [raised |-> "none",
              cols |-> (t.cols \ {"date"}) \cup {"I"}
                       \cup (IF hasRate THEN {"vaccination_rate"} ELSE {}),
              rows |-> [i \in 1..Len(t.rows) |-> CleanRow(i)]]
    ELSE [raised |-> "KeyError"]

clean_who_data(t) ==
    IF {"Date_reported", "New_cases"} \subseteq t.cols
    THEN [raised |-> "none",
          cols |-> (t.cols \ {"Date_reported", "New_cases"}) \cup {"new_cases", "I"},
          rows |-> [i \in 1..Len(t.rows) |->
                        [date |-> t.rows[i].Date_reported,
                         new_cases |-> t.rows[i].New_cases,
                         I |-> Indicator(t.rows[i].New_cases)]]]
    ELSE [raised |-> "KeyError"]

\* pd.merge(how="inner", on="date"): left order kept, one row per matching pair
RECURSIVE InnerJoin(_, _)
InnerJoin(left, right) ==
    IF left = <<>> THEN <<>>
    ELSE LET l == Head(left)
             SameDate(r) == r.date = l.date
             hits == SelectSeq(right, SameDate)
         IN  [j \in 1..Len(hits) |->
                 [date |-> l.date,
                  vaccination_rate |-> l.vaccination_rate,
                  I |-> l.I,
                  I_who |-> hits[j].I,
                  new_cases |-> l.new_cases[1],
                  people_vaccinated |-> l.people_vaccinated]]
             \o InnerJoin(Tail(left), right)

merge_datasets(owid, who) ==
    IF {"vaccination_rate", "I", "new_cases", "people_vaccinated"} \subseteq owid.cols
       /\ {"new_cases", "I"} \subseteq who.cols
    THEN [raised |-> "none", rows |-> InnerJoin(owid.rows, who.rows)]
    ELSE [raised |-> "KeyError"]

-----------------------------------------------------------------------------
(* Resampling: Series.resample(rule).sum() *)

\* The label of the bin of width w days that holds day d: the last day of the bin.
BinEnd(d, w) == ((d + w - 1) \div w) * w

WeekEnd(d) == BinEnd(d, 7)

\* Months of the model's calendar are 30 days long.
MonthEnd(d) == BinEnd(d, 30)

\* The rule handed to resample: "W", "ME" for "M" / "ME", the period itself otherwise
ResampleRule(period) ==
    IF period = "W" THEN "W"
    ELSE IF period = "M" \/ period = "ME" THEN "ME"
    ELSE period

\* Resampling rules: the frequency strings pandas accepts, with the width of their bins.
ValidRule(rule) == rule \in {"W", "ME", "D"}
RuleWidth(rule) == IF rule = "W" THEN 7 ELSE IF rule = "ME" THEN 30 ELSE 1

MinOf(S) == CHOOSE x \in S : \A y \in S : x <= y
MaxOf(S) == CHOOSE x \in S : \A y \in S : x >= y

SeqRange(s) == {s[i] : i \in 1..Len(s)}

\* sorted(S) of a set of dates
RECURSIVE SortedDates(_)
SortedDates(S) ==
    IF S = {} THEN <<>>
    ELSE LET lo == MinOf(S)
             hi == MaxOf(S)
             mid == (lo + hi) \div 2
         IN  IF lo = hi THEN <<lo>>
             ELSE SortedDates({x \in S : x <= mid}) \o SortedDates({x \in S : x > mid})

\* Mutant of BinLabels: only the bins that hold a row (a group-by, not a resampling).
BinLabelsOccupied(dates, w) == SortedDates({BinEnd(dates[i], w) : i \in 1..Len(dates)})

\* The labels of the bins of width w over a non-empty sequence of dates: one per period
\* from the bin of the earliest date to the bin of the latest one, rows or no rows.
BinLabels(dates, w) ==
    LET first == BinEnd(MinOf(SeqRange(dates)), w)
        last == BinEnd(MaxOf(SeqRange(dates)), w)
    IN  [k \in 1..(((last - first) \div w) + 1) |-> first + w * (k - 1)]

\* A bin without rows sums to 0. dates and values are parallel sequences.
ResampleSum(dates, values, w) ==
    IF dates = <<>> THEN <<>>
    ELSE LET labels == BinLabels(dates, w)
             n == Len(labels)
             Label(k) == labels[k]
             InBin(k) == {i \in 1..Len(dates) : BinEnd(dates[i], w) = Label(k)}
             RECURSIVE SumOver(_)
             SumOver(S) == IF S = {} THEN 0
                           ELSE LET i == CHOOSE j \in S : TRUE
                                IN  values[i] + SumOver(S \ {i})
         IN  [k \in 1..n |-> [date |-> Label(k), value |-> SumOver(InBin(k))]]

ResampleWeeklySum(dates, values) == ResampleSum(dates, values, 7)

-----------------------------------------------------------------------------
(* process_data.py: aggregate_by_period and process_all_data *)

\* A cell or an integer as a float: NaN stays NaN
CellAsFloat(c) == IF IsNaN(c) THEN NaN ELSE <<c[1], 1>>

NotMissing(x) == ~IsNaN(x)

RECURSIVE MaxFracs(_)
MaxFracs(s) ==
    IF s = <<>> THEN NaN
    ELSE IF Len(s) = 1 THEN s[1]
    ELSE LET m == MaxFracs(Tail(s)) IN IF RGeq(s[1], m) THEN s[1] ELSE m

RECURSIVE MinFracs(_)
MinFracs(s) ==
    IF s = <<>> THEN NaN
    ELSE IF Len(s) = 1 THEN s[1]
    ELSE LET m == MinFracs(Tail(s)) IN IF RGeq(m, s[1]) THEN s[1] ELSE m

\* The statistics resample(...).agg(...) computes of one column over one bin; missing
\* values are skipped, an empty bin sums to 0 and has no mean, max or min.
BinStats(name, values) ==
    LET v == SelectSeq(values, NotMissing)
    IN  IF name = "I"
        THEN [I_sum |-> SumFracs(v), I_mean |-> MeanFracs(v), I_count |-> Len(v)]
        ELSE IF name = "vaccination_rate"
        THEN [vaccination_rate_mean |-> MeanFracs(v), vaccination_rate_max |-> MaxFracs(v),
              vaccination_rate_min |-> MinFracs(v)]
        ELSE IF name = "new_cases"
        THEN [new_cases_sum |-> SumFracs(v), new_cases_mean |-> MeanFracs(v),
              new_cases_max |-> MaxFracs(v)]
        ELSE [people_vaccinated_mean |-> MeanFracs(v), people_vaccinated_max |-> MaxFracs(v)]

\* A column of a cleaned table as floats
FloatColumn(rows, name) ==
    [i \in 1..Len(rows) |->
        IF name = "I" THEN <<rows[i].I, 1>>
        ELSE IF name = "vaccination_rate" THEN rows[i].vaccination_rate
        ELSE IF name = "new_cases" THEN CellAsFloat(rows[i].new_cases)
        ELSE CellAsFloat(rows[i].people_vaccinated)]

\* aggregate_by_period of a cleaned table (cols, rows indexed by date); the primary
\* column is "I". One row per bin from the bin of the earliest date to the bin of the
\* latest one, whatever the order of the rows.
aggregate_by_period(t, period) ==
    LET agg == {"I", "vaccination_rate", "new_cases", "people_vaccinated"} \cap t.cols
        rule == ResampleRule(period)
        w == RuleWidth(rule)
        dates == Column(t.rows, "date")
        bins == ResampleSum(dates, [i \in 1..Len(dates) |-> 0], w)
        InBin(k) == LET Here(r) == BinEnd(r.date, w) = bins[k].date
                    IN  SelectSeq(t.rows, Here)
        Stats(k, name) == IF name \in agg THEN BinStats(name, FloatColumn(InBin(k), name))
                          ELSE <<>>
    IN  IF period = "D" THEN [raised |-> "none", rows |-> t.rows]
        ELSE IF agg = {}
        THEN [raised |-> "none", rows |-> [i \in 1..Len(dates) |-> [date |-> dates[i]]]]
        ELSE IF ~ValidRule(rule) THEN [raised |-> "ValueError"]
        ELSE [raised |-> "none",
              rows |-> [k \in 1..Len(bins) |->
                           [date |-> bins[k].date]
                           @@ Stats(k, "I") @@ Stats(k, "vaccination_rate")
                           @@ Stats(k, "new_cases") @@ Stats(k, "people_vaccinated")]]

\* weekly_owid.insert(0, "country", country)
WithCountry(rows, c) == [i \in 1..Len(rows) |-> [country |-> c] @@ rows[i]]

\* process_all_data with save_processed = True: the cleaned and merged tables it returns
\* and the aggregates it writes under data/processed.
process_all_data(owid, who, c) ==
    LET f == filter_country_data(owid, who, c)
    IN  IF f.raised # "none" THEN [raised |-> f.raised]
        ELSE LET oc == clean_owid_data(f.owid_filtered)
             IN  IF oc.raised # "none" THEN [raised |-> oc.raised]
                 ELSE LET wc == clean_who_data(f.who_filtered)
                      IN  IF wc.raised # "none" THEN [raised |-> wc.raised]
                          ELSE LET m == merge_datasets(oc, wc)
                               IN  IF m.raised # "none" THEN [raised |-> m.raised]
                                   ELSE [raised |-> "none",
                                         owid_cleaned |-> oc,
                                         who_cleaned |-> wc,
                                         merged_df |-> m.rows,
                                         weekly_owid |->
                                             WithCountry(aggregate_by_period(oc, "W").rows, c),
                                         weekly_who |->
                                             WithCountry(aggregate_by_period(wc, "W").rows, c),
                                         monthly_owid |->
                                             WithCountry(aggregate_by_period(oc, "ME").rows, c),
                                         monthly_who |->
                                             WithCountry(aggregate_by_period(wc, "ME").rows, c)]


-----------------------------------------------------------------------------
(* analyze.py *)

DefaultThreshold == <<1, 2>>

\* |z| beyond which 2 * (1 - norm.cdf(|z|)) < 0.05, squared: 1.959964^2
ZCritSq == <<38415, 10000>>

\* Mutant of InHigh: the boundary record (rate = threshold) is left out.
InHighStrict(rate, t) == RGt(rate, t)

InHigh(rate, t) == RGeq(rate, t)

\* Mutant of InLow: the boundary record is counted low as well.
InLowInclusive(rate, t) == RGeq(t, rate)

InLow(rate, t) == RLt(rate, t)

HighVax(rows, t) ==
    LET Test(r) == InHigh(r.vaccination_rate, t)
    IN  SelectSeq(rows, Test)

LowVax(rows, t) ==
    LET Test(r) == InLow(r.vaccination_rate, t)
    IN  SelectSeq(rows, Test)

calculate_bernoulli_parameters(rows) ==
    LET p_I == MeanInts(Column(rows, "I"))
        p_V == MeanFracs(Column(rows, "vaccination_rate"))
        var_I == RMul(p_I, RSub(One, p_I))
        var_V == RMul(p_V, RSub(One, p_V))
    IN  [raised |-> "none", p_I |-> p_I, p_V |-> p_V, var_I |-> var_I, var_V |-> var_V,
         std_I_sq |-> var_I, std_V_sq |-> var_V]

\* sqrt(p * (1 - p) / n) if n > 0 else 0, as the fraction under the root
StdErrSq(p, n) == IF n > 0 THEN RDivInt(RMul(p, RSub(One, p)), n) ELSE Zero

calculate_conditional_probabilities(rows, t) ==
    LET high_vax == HighVax(rows, t)
        low_vax == LowVax(rows, t)
        p_I_high == MeanInts(Column(high_vax, "I"))
        p_I_low == MeanInts(Column(low_vax, "I"))
        n_high == Len(high_vax)
        n_low == Len(low_vax)
    IN  [raised |-> "none",
         p_I_high |-> p_I_high,
         p_I_low |-> p_I_low,
         difference |-> RSub(p_I_high, p_I_low),
         n_high |-> n_high,
         n_low |-> n_low,
         se_high_sq |-> StdErrSq(p_I_high, n_high),
         se_low_sq |-> StdErrSq(p_I_low, n_low),
         threshold |-> t]

\* Mutant of NTrials: every period but "W" counts 30 trials.
NTrialsThirtyOtherwise(period) == IF period = "W" THEN 7 ELSE 30

NTrials(period) ==
    IF period = "W" THEN 7
    ELSE IF period = "M" \/ period = "ME" THEN 30
    ELSE 7

calculate_binomial_parameters(rows, period) ==
    LET p_I == MeanInts(Column(rows, "I"))
        n_trials == NTrials(period)
        E_period == RMul(<<n_trials, 1>>, p_I)
        Var_period == RMul(RMul(<<n_trials, 1>>, p_I), RSub(One, p_I))
        rule == ResampleRule(period)
        actual == ResampleSum(Column(rows, "date"), Column(rows, "I"), RuleWidth(rule))
        sums == Column(actual, "value")
        actual_mean == MeanInts(sums)
        actual_var == VarInts(sums)
    IN  IF ~ValidRule(rule) THEN [raised |-> "ValueError"]   \* Invalid frequency
        ELSE
        [raised |-> "none",
         results |-> [period |-> period,
                      n_trials |-> n_trials,
                      p_I |-> p_I,
                      expected_mean |-> E_period,
                      expected_variance |-> Var_period,
                      actual_mean |-> actual_mean,
                      actual_variance |-> actual_var,
                      mean_difference |-> RSub(actual_mean, E_period),
                      variance_difference |-> RSub(actual_var, Var_period)],
         actual |-> actual]

\* x / n if n > 0 else 0
GuardedProportion(x, n) == IF n > 0 THEN Frac(x, n) ELSE Zero

\* The two-tailed p-value 2 * (1 - norm.cdf(|z|)) is kept as the z^2 it is the tail of;
\* the guarded default 1.0 is the tail of z = 0.
PValue(se_positive, z_sq) == IF se_positive THEN [tail_of |-> z_sq] ELSE [tail_of |-> Zero]

\* Mutant of Significant: the comparison with 0.05 is reversed.
SignificantReversed(p_value) == ~RGt(p_value.tail_of, ZCritSq)

\* p_value < 0.05
Significant(p_value) == RGt(p_value.tail_of, ZCritSq)

perform_statistical_tests(rows, t) ==
    LET high_vax == Column(HighVax(rows, t), "I")
        low_vax == Column(LowVax(rows, t), "I")
        n1 == Len(high_vax)
        n2 == Len(low_vax)
        x1 == SumInts(high_vax)
        x2 == SumInts(low_vax)
        p1 == GuardedProportion(x1, n1)
        p2 == GuardedProportion(x2, n2)
        p_pooled == IF n1 + n2 > 0 THEN Frac(x1 + x2, n1 + n2) ELSE Zero
    IN  IF n1 + n2 > 0 /\ (n1 = 0 \/ n2 = 0)
        THEN [raised |-> "ZeroDivisionError"]   \* 1/n1 + 1/n2 on Python ints
        ELSE LET se_sq == IF n1 + n2 > 0
                          THEN RMul(RMul(p_pooled, RSub(One, p_pooled)),
                                    RAdd(Frac(1, n1), Frac(1, n2)))
                          ELSE Zero
                 se_positive == RGt(se_sq, Zero)
                 diff == RSub(p1, p2)
                 z_sq == IF se_positive
                         THEN Frac(diff[1] * diff[1] * se_sq[2], diff[2] * diff[2] * se_sq[1])
                         ELSE Zero
                 z_sign == IF ~se_positive \/ diff[1] = 0 THEN 0
                           ELSE IF diff[1] > 0 THEN 1 ELSE -1
                 p_value == PValue(se_positive, z_sq)
             IN  [raised |-> "none",
                  test_type |-> "Two-sample proportion test (z-test)",
                  n_high |-> n1,
                  n_low |-> n2,
                  p_high |-> p1,
                  p_low |-> p2,
                  difference |-> diff,
                  z_statistic |-> [sign |-> z_sign, sq |-> z_sq],
                  p_value |-> p_value,
                  significant |-> Significant(p_value),
                  \* The Python type of each value: a numpy scalar where numpy or scipy
                  \* computed it, a built-in where a guard supplied the literal.
                  pytypes |-> [test_type |-> "str",
                               n_high |-> "int",
                               n_low |-> "int",
                               p_high |-> IF n1 > 0 THEN "numpy.float64" ELSE "int",
                               p_low |-> IF n2 > 0 THEN "numpy.float64" ELSE "int",
                               difference |-> IF n1 + n2 > 0 THEN "numpy.float64" ELSE "int",
                               z_statistic |-> IF se_positive THEN "numpy.float64" ELSE "int",
                               p_value |-> IF se_positive THEN "numpy.float64" ELSE "float",
                               significant |-> IF se_positive THEN "numpy.bool_" ELSE "bool"]]

\* run_complete_analysis: the four estimators in order; the first exception propagates.
\* Mutant of run_complete_analysis: the result also carries a correlation_analysis
\* section, with a significant positive correlation.
RunCompleteAnalysisWithCorrelation(rows) ==
    LET bernoulli == calculate_bernoulli_parameters(rows)
        conditional == calculate_conditional_probabilities(rows, DefaultThreshold)
        binomial == calculate_binomial_parameters(rows, "W")
        test_results == perform_statistical_tests(rows, DefaultThreshold)
    IN  IF test_results.raised # "none" THEN [raised |-> test_results.raised]
        ELSE [raised |-> "none",
              all_results |-> [bernoulli |-> bernoulli,
                               conditional |-> conditional,
                               binomial_weekly |-> binomial.results,
                               statistical_tests |-> test_results,
                               weekly_actual |-> binomial.actual,
                               correlation_analysis |->
                                   [correlation_coefficient |-> One,
                                    p_value |-> Zero,
                                    t_statistic |-> One,
                                    significant |-> TRUE]]]

run_complete_analysis(rows) ==
    LET bernoulli == calculate_bernoulli_parameters(rows)
        conditional == calculate_conditional_probabilities(rows, DefaultThreshold)
        binomial == calculate_binomial_parameters(rows, "W")
        test_results == perform_statistical_tests(rows, DefaultThreshold)
    IN  IF test_results.raised # "none" THEN [raised |-> test_results.raised]
        ELSE [raised |-> "none",
              all_results |-> [bernoulli |-> bernoulli,
                               conditional |-> conditional,
                               binomial_weekly |-> binomial.results,
                               statistical_tests |-> test_results,
                               weekly_actual |-> binomial.actual]]


-----------------------------------------------------------------------------
(* generate_report.py: generate_json_report, read back with json.load *)

\* json.dump(..., default=str) of one value followed by json.load: int and float (and
\* numpy.float64, a subclass of float) are numbers, bool is a boolean, str a string; any
\* other object (numpy.bool_, numpy.int64) goes through str() and comes back a string.
JsonDump(v, pytype) ==
    IF pytype \in {"int", "float", "numpy.float64"} THEN [json |-> "number", value |-> v]
    ELSE IF pytype = "bool" THEN [json |-> "boolean", value |-> v]
    ELSE IF pytype = "str" THEN [json |-> "string", value |-> v]
    ELSE [json |-> "string", value |-> <<"str", v>>]

\* The Python type of a value of a result section
PyTypeOf(section, field, rec) ==
    IF section = "statistical_tests" THEN rec.pytypes[field]
    ELSE IF field \in {"n_high", "n_low", "n_trials"} THEN "int"
    ELSE IF field = "period" THEN "str"
    ELSE IF field = "threshold" THEN "float"
    ELSE IF field = "se_high_sq" /\ rec.n_high = 0 THEN "int"
    ELSE IF field = "se_low_sq" /\ rec.n_low = 0 THEN "int"
    ELSE "numpy.float64"

\* The keys of a section's dictionary
SectionFields(rec) == DOMAIN rec \ {"raised", "pytypes"}

\* index.strftime('%Y-%m-%d')
IsoDate(d) == [iso |-> d]

generate_json_report(results) ==
    [raised |-> "none",
     file |-> [key \in DOMAIN results |->
                 IF key = "weekly_actual"
                 THEN [index |-> [i \in 1..Len(results[key]) |-> IsoDate(results[key][i].date)],
                       values |-> [i \in 1..Len(results[key]) |-> results[key][i].value]]
                 ELSE [f \in SectionFields(results[key]) |->
                          JsonDump(results[key][f], PyTypeOf(key, f, results[key]))]]]

-----------------------------------------------------------------------------
(* generate_html.py: prepare_chart_data *)

\* The analysis period '2020-01-01' .. '2022-12-31' on the model's calendar: it starts
\* on a Wednesday and ends on a Saturday, the day before a weekly bin label.
PeriodStart == 3
PeriodEnd == 13

\* base_dates[:200]
ComparisonLimit == 200

\* match within 7 days
Tolerance == 7

\* Mutant of InPeriod: the upper bound of the period is not applied.
InPeriodOpenEnded(d) == d >= PeriodStart

InPeriod(d) == d >= PeriodStart /\ d <= PeriodEnd

\* Stable ascending sort of rows on an integer field
RECURSIVE InsertRow(_, _, _)
InsertRow(sorted, r, f) ==
    IF sorted = <<>> THEN <<r>>
    ELSE IF sorted[Len(sorted)][f] <= r[f] THEN Append(sorted, r)
    ELSE Append(InsertRow(SubSeq(sorted, 1, Len(sorted) - 1), r, f), sorted[Len(sorted)])

RECURSIVE SortRows(_, _)
SortRows(rows, f) ==
    IF rows = <<>> THEN <<>>
    ELSE InsertRow(SortRows(SubSeq(rows, 1, Len(rows) - 1), f), rows[Len(rows)], f)

\* A missing cell counts 0 in a sum / after fillna(0)
CellOrZero(c) == IF IsNaN(c) THEN 0 ELSE c[1]

\* OWID: daily new_cases of 'United States' inside the period, summed per week
OwidWeekly(owid) ==
    IF "location" \notin owid.cols THEN [raised |-> "KeyError"]
    ELSE LET IsUS(r) == r.location = US
             Dated(r) == InPeriod(r.date)
             owid_us == SelectSeq(SelectSeq(owid.rows, IsUS), Dated)
         IN  IF "date" \notin owid.cols THEN [raised |-> "none", series |-> <<>>]
             ELSE IF "new_cases" \notin owid.cols THEN [raised |-> "KeyError"]
             ELSE [raised |-> "none",
                   series |-> ResampleWeeklySum(
                                  Column(owid_us, "date"),
                                  [i \in 1..Len(owid_us) |-> CellOrZero(owid_us[i].new_cases)])]

\* WHO: rows of 'United States of America' inside the period, as reported (already weekly)
WhoWeekly(who) ==
    IF "Country" \notin who.cols THEN [raised |-> "KeyError"]
    ELSE LET IsUSA(r) == r.Country = USA
             Dated(r) == InPeriod(r.Date_reported)
             who_us == SelectSeq(SortRows(SelectSeq(who.rows, IsUSA), "Date_reported"), Dated)
         IN  IF "Date_reported" \notin who.cols THEN [raised |-> "none", series |-> <<>>]
             ELSE IF "New_cases" \notin who.cols THEN [raised |-> "KeyError"]
             ELSE [raised |-> "none",
                   series |-> [i \in 1..Len(who_us) |->
                                  [date |-> who_us[i].Date_reported,
                                   value |-> CellOrZero(who_us[i].New_cases)]]]

\* Mutant of CumulativeToDaily: a negative difference is kept.
CumulativeToDailyUnclamped(cases) ==
    [i \in 1..Len(cases) |-> IF i = 1 THEN cases[1] ELSE cases[i] - cases[i - 1]]

\* cases.diff().fillna(cases.iloc[0]).clip(lower=0)
CumulativeToDaily(cases) ==
    [i \in 1..Len(cases) |->
        LET inc == IF i = 1 THEN cases[1] ELSE cases[i] - cases[i - 1]
        IN  IF inc < 0 THEN 0 ELSE inc]

\* NYT: cumulative cases inside the period, differenced and summed per week
NytWeekly(nyt) ==
    IF "date" \notin nyt.cols THEN [raised |-> "none", series |-> <<>>]
    ELSE LET Dated(r) == InPeriod(r.date)
             nyt_copy == SelectSeq(SortRows(nyt.rows, "date"), Dated)
         IN  IF "cases" \notin nyt.cols THEN [raised |-> "KeyError"]
             ELSE IF nyt_copy = <<>> THEN [raised |-> "IndexError"]   \* cases.iloc[0]
             ELSE [raised |-> "none",
                   series |-> ResampleWeeklySum(Column(nyt_copy, "date"),
                                                CumulativeToDaily(Column(nyt_copy, "cases")))]

SeriesDates(series) == {series[i].date : i \in 1..Len(series)}

\* dict(zip(dates, values)): a later entry of the same date replaces an earlier one
DictOf(series) ==
    [d \in SeriesDates(series) |->
        series[MaxOf({i \in 1..Len(series) : series[i].date = d})].value]

WithinTolerance(d, dates) == \E x \in dates : Abs(x - d) <= Tolerance

\* Mutant of BaseDates: every date of the three series is a base date.
BaseDatesUnfiltered(owid_dict, who_dict, nyt_dict) ==
    SortedDates(DOMAIN owid_dict \cup DOMAIN who_dict \cup DOMAIN nyt_dict)

BaseDates(owid_dict, who_dict, nyt_dict) ==
    LET od == DOMAIN owid_dict
        wd == DOMAIN who_dict
        nd == DOMAIN nyt_dict
    IN  IF od # {} /\ nd # {} /\ wd # {}
        THEN SortedDates({d \in od \cup nd \cup wd :
                            WithinTolerance(d, od) /\ WithinTolerance(d, nd)
                            /\ WithinTolerance(d, wd)})
        ELSE IF od # {} /\ nd # {} THEN SortedDates(od \cap nd)
        ELSE IF od # {} THEN SortedDates(od)
        ELSE IF nd # {} THEN SortedDates(nd)
        ELSE <<>>

\* Mutant of ComparisonDates: the latest 200 base dates are kept.
ComparisonDatesLatest(base_dates) ==
    IF Len(base_dates) > ComparisonLimit
    THEN SubSeq(base_dates, Len(base_dates) - ComparisonLimit + 1, Len(base_dates))
    ELSE base_dates

ComparisonDates(base_dates) ==
    IF Len(base_dates) > ComparisonLimit THEN SubSeq(base_dates, 1, ComparisonLimit)
    ELSE base_dates

\* Mutant of match_weekly_value: only the exact date is looked up.
MatchExactOnly(d, source_dict) ==
    IF d \in DOMAIN source_dict THEN source_dict[d] ELSE 0

\* Mutant of match_weekly_value: the search after a zero skips the entry of the date
\* itself and takes the nearest other week.
MatchNeighbourAfterZero(d, source_dict) ==
    LET exact == IF d \in DOMAIN source_dict THEN source_dict[d] ELSE 0
    IN  IF exact = 0 \/ d \notin DOMAIN source_dict
        THEN LET near == {x \in DOMAIN source_dict \ {d} : Abs(d - x) <= Tolerance}
             IN  IF near = {} THEN exact
                 ELSE LET least == MinOf({Abs(d - x) : x \in near})
                      IN  source_dict[MinOf({x \in near : Abs(d - x) = least})]
        ELSE exact

\* The dictionary is walked in ascending date order; the first entry at the least
\* distance (<= 7 days) wins.
match_weekly_value(d, source_dict) ==
    LET exact == IF d \in DOMAIN source_dict THEN source_dict[d] ELSE 0
    IN  IF exact = 0 \/ d \notin DOMAIN source_dict
        THEN LET near == {x \in DOMAIN source_dict : Abs(d - x) <= Tolerance}
             IN  IF near = {} THEN exact
                 ELSE LET least == MinOf({Abs(d - x) : x \in near})
                      IN  source_dict[MinOf({x \in near : Abs(d - x) = least})]
        ELSE exact

\* The alignment of the three weekly series: base dates, the first 200 of them, and
\* the value of each source matched to each of those dates
threeSourceComparison(owid_series, who_series, nyt_series) ==
    LET owid_dict == DictOf(owid_series)
        who_dict == DictOf(who_series)
        nyt_dict == DictOf(nyt_series)
        comparison_dates == ComparisonDates(BaseDates(owid_dict, who_dict, nyt_dict))
        k == Len(comparison_dates)
    IN  [dates |-> comparison_dates,
         weekNumbers |-> [i \in 1..k |-> i],
         owid |-> [i \in 1..k |-> match_weekly_value(comparison_dates[i], owid_dict)],
         who |-> [i \in 1..k |->
                     IF DOMAIN who_dict # {}
                     THEN match_weekly_value(comparison_dates[i], who_dict)
                     ELSE 0],
         nyt |-> [i \in 1..k |-> match_weekly_value(comparison_dates[i], nyt_dict)]]

SortInts(s) == Column(SortRows([i \in 1..Len(s) |-> [v |-> s[i]]], "v"), "v")

\* Series.median()
MedianInts(s) ==
    LET n == Len(s)
        o == SortInts(s)
    IN  IF n = 0 THEN NaN
        ELSE IF n % 2 = 1 THEN <<o[(n + 1) \div 2], 1>>
        ELSE Frac(o[n \div 2] + o[(n \div 2) + 1], 2)

prepare_chart_data(rows, owid, who, nyt) ==
    LET high_vax == HighVax(rows, DefaultThreshold)
        low_vax == LowVax(rows, DefaultThreshold)
        p_I == MeanInts(Column(rows, "I"))
        p_I_high == IF Len(high_vax) > 0 THEN MeanInts(Column(high_vax, "I")) ELSE Zero
        p_I_low == IF Len(low_vax) > 0 THEN MeanInts(Column(low_vax, "I")) ELSE Zero
        o == OwidWeekly(owid)
    IN  IF o.raised # "none" THEN [raised |-> o.raised]
        ELSE LET w == WhoWeekly(who)
        IN  IF w.raised # "none" THEN [raised |-> w.raised]
        ELSE LET n == NytWeekly(nyt)
        IN  IF n.raised # "none" THEN [raised |-> n.raised]
        ELSE LET dates == Column(rows, "date")
                 cases == Column(rows, "new_cases")
        IN  IF rows = <<>> THEN [raised |-> "ValueError"]   \* NaT.strftime
            ELSE [raised |-> "none",
                  owid_series |-> o.series,
                  who_series |-> w.series,
                  nyt_series |-> n.series,
                  dataCoverage |-> [start |-> MinOf(SeqRange(dates)),
                                    end |-> MaxOf(SeqRange(dates)),
                                    totalDays |-> Len(rows)],
                  vaccinationTimeline |-> [dates |-> dates,
                                           rates |-> Column(rows, "vaccination_rate"),
                                           weekNumbers |-> [i \in 1..Len(rows) |-> i]],
                  threeSourceComparison |->
                      threeSourceComparison(o.series, w.series, n.series),
                  conditionalProbabilities |-> [highVax |-> p_I_high, lowVax |-> p_I_low],
                  descriptiveStats |-> [mean |-> MeanInts(cases),
                                        median |-> MedianInts(cases),
                                        std_sq |-> VarInts(cases)],
                  bernoulli |-> [p_I |-> p_I, p_I_0 |-> RSub(One, p_I)]]

\* dict.get(key, default)
DictGet(d, key, default) == IF key \in DOMAIN d THEN d[key] ELSE default

\* create_html_dashboard up to its conclusion: the chart data, then the correlation
\* section of the analysis results (or the defaults 0, 1.0, 0, False) and the verdict.
\* The subscript zero of the verdict is written 0 here.
create_html_dashboard(rows, results, owid, who, nyt) ==
    LET chart == prepare_chart_data(rows, owid, who, nyt)
    IN  IF chart.raised # "none" THEN chart
        ELSE LET corr_analysis == DictGet(results, "correlation_analysis", <<>>)
                 correlation == DictGet(corr_analysis, "correlation_coefficient", Zero)
                 corr_p_value == DictGet(corr_analysis, "p_value", One)
                 corr_t_stat == DictGet(corr_analysis, "t_statistic", Zero)
                 corr_significant == DictGet(corr_analysis, "significant", FALSE)
                 conclusion == IF corr_significant THEN "REJECT H0"
                               ELSE "FAIL TO REJECT H0"
                 conclusion_text ==
                     IF corr_significant
                     THEN IF RGt(correlation, Zero)
                          THEN <<"significant positive correlation", correlation,
                                 corr_p_value>>
                          ELSE <<"significant negative correlation">>
                     ELSE <<"no significant correlation", correlation, corr_p_value>>
             IN  chart @@ [correlation |-> correlation,
                           corr_p_value |-> corr_p_value,
                           corr_t_stat |-> corr_t_stat,
                           corr_significant |-> corr_significant,
                           conclusion |-> conclusion,
                           conclusion_text |-> conclusion_text]


-----------------------------------------------------------------------------
(* Tables *)

EmptyTable(cols) == [cols |-> cols, rows |-> <<>>]

\* All sequences of at most n elements of S
SeqsUpTo(S, n) == UNION {[1..k -> S] : k \in 0..n}

NoResults == <<>>

\* owid_processed, who_processed and the aggregates written under data/processed
ProcessedTables(r) ==
    [owid_processed |-> r.owid_cleaned.rows,
     who_processed |-> r.who_cleaned.rows,
     weekly_owid |-> r.weekly_owid,
     weekly_who |-> r.weekly_who,
     monthly_owid |-> r.monthly_owid,
     monthly_who |-> r.monthly_who]

-----------------------------------------------------------------------------
(* SpecEst: the estimators of analyze.py applied to a table the processing   *)
(* stage produced, with a threshold chosen by the caller.                    *)

EstNewCases == {NaN, <<0>>, <<2>>}
EstVaccinated == {NaN} \cup {<<v>> : v \in 0..MaxPV}
Thresholds == {Zero, DefaultThreshold, One}

\* Period arguments: weekly, the two monthly spellings, another valid frequency, and a
\* string that is no pandas frequency.
Periods == {"W", "M", "ME", "D", "X"}

\* Row i is dated 4i - 3 (days 1, 5, 9, ...); WHO reports every one of these dates.
EstDay(i) == 4 * i - 3

EstOwidTables ==
    UNION {{[cols |-> OwidCols,
             rows |-> [i \in 1..n |-> [location |-> US,
                                       date |-> EstDay(i),
                                       new_cases |-> nc[i],
                                       people_vaccinated |-> pv[i],
                                       population |-> <<Population>>]]]
               : nc \in [1..n -> EstNewCases], pv \in [1..n -> EstVaccinated]}
           : n \in 0..MaxRows}

EstWhoTable(n) ==
    [cols |-> WhoCols,
     rows |-> [i \in 1..n |-> [Country |-> USA, Date_reported |-> EstDay(i),
                               New_cases |-> <<1>>]]]

EstTables ==
    {process_all_data(t, EstWhoTable(Len(t.rows)), US).merged_df : t \in EstOwidTables}

InitEst ==
    /\ pc = "bernoulli"
    /\ df \in EstTables
    /\ processed = NoResults
    /\ threshold \in Thresholds
    /\ analysis_results = NoResults
    /\ raised = "none"
    /\ save_raw = SAVE_RAW
    /\ country = US
    /\ owid_df = EmptyTable(OwidCols)
    /\ who_df = EmptyTable(WhoCols)
    /\ nyt_df = EmptyTable(NytCols)
    /\ chart_data = NoResults
    /\ report = NoResults
    /\ fetched = <<>>
    /\ rawFiles = {}
    /\ stages = <<>>
    /\ printed = <<>>
    /\ handled = 0
    /\ exitStatus = -1

\* Mutant of EstStep: the call drops the first record of the table it was given.
EstStepInPlace(here, section, result, next) ==
    /\ pc = here
    /\ analysis_results' = analysis_results @@ (section :> result)
    /\ pc' = IF result.raised = "none" THEN next ELSE "raised"
    /\ raised' = result.raised
    /\ df' = IF df = <<>> THEN df ELSE Tail(df)
    /\ UNCHANGED <<save_raw, country, owid_df, who_df, nyt_df, processed, threshold, chart_data,
                   report, fetched, rawFiles, stages, printed, handled, exitStatus>>

\* The harness stores a section, or stops at the exception the call raised.
EstStep(here, section, result, next) ==
    /\ pc = here
    /\ IF result.raised = "none"
       THEN /\ analysis_results' = analysis_results @@ (section :> result)
            /\ pc' = next
            /\ raised' = raised
       ELSE /\ analysis_results' = analysis_results
            /\ pc' = "raised"
            /\ raised' = result.raised
    /\ UNCHANGED <<save_raw, country, owid_df, who_df, nyt_df, df, processed, threshold, chart_data, report,
                   fetched, rawFiles, stages, printed, handled, exitStatus>>

EstBernoulli ==
    EstStep("bernoulli", "bernoulli", calculate_bernoulli_parameters(df), "conditional")

EstConditional ==
    EstStep("conditional", "conditional",
            calculate_conditional_probabilities(df, threshold), "binomial")

EstBinomial ==
    \E period \in Periods :
        EstStep("binomial", "binomial_weekly", calculate_binomial_parameters(df, period),
                "tests")

EstTests ==
    EstStep("tests", "statistical_tests", perform_statistical_tests(df, threshold), "done")

NextEst == EstBernoulli \/ EstConditional \/ EstBinomial \/ EstTests

SpecEst == InitEst /\ [][NextEst]_vars


-----------------------------------------------------------------------------
(* Properties of the estimators (SpecEst) *)

\* Row numbers of df on either side of the threshold, read off the stored fractions.
HighRows == {i \in 1..Len(df) : df[i].vaccination_rate[1] * threshold[2]
                                    >= threshold[1] * df[i].vaccination_rate[2]}
LowRows == {i \in 1..Len(df) : df[i].vaccination_rate[1] * threshold[2]
                                   < threshold[1] * df[i].vaccination_rate[2]}
InfectedAmong(S) == Cardinality({i \in S : df[i].I = 1})

TestsCalled ==
    \/ pc = "done"
    \/ pc = "raised" /\ "binomial_weekly" \in DOMAIN analysis_results
TestsReturned == pc = "done" /\ "statistical_tests" \in DOMAIN analysis_results
ConditionalReturned == "conditional" \in DOMAIN analysis_results

ZTestDefaults ==
    /\ TestsReturned
    /\ analysis_results["statistical_tests"].z_statistic.sign = 0
    /\ analysis_results["statistical_tests"].z_statistic.sq = Zero
    /\ analysis_results["statistical_tests"].p_value.tail_of = Zero

\* C1: with exactly one of the two vaccination partitions empty,
\* perform_statistical_tests returns normally with z_statistic = 0 and p_value = 1.
C1_OnePartitionEmptyGivesDefaults ==
    (TestsCalled /\ ((HighRows = {}) # (LowRows = {})))
        => (raised = "none" /\ ZTestDefaults)

\* C2: with both partitions empty, or both non-empty and every record carrying the same
\* indicator value, perform_statistical_tests raises nothing and returns z_statistic = 0,
\* p_value = 1, significant = false.
C2_DegenerateZTest ==
    (TestsCalled
     /\ \/ Len(df) = 0
        \/ /\ HighRows # {} /\ LowRows # {}
           /\ \A i, j \in 1..Len(df) : df[i].I = df[j].I)
        => (raised = "none" /\ ZTestDefaults
            /\ analysis_results["statistical_tests"].significant = FALSE)

C2_Witness ==
    /\ TestsReturned
    /\ HighRows # {} /\ LowRows # {}
    /\ \A i \in 1..Len(df) : df[i].I = 1
    /\ ZTestDefaults

\* C8: n_high + n_low of calculate_conditional_probabilities equals the number of records.
C8_PartitionSizesSumToTotal ==
    ConditionalReturned
        => analysis_results["conditional"].n_high + analysis_results["conditional"].n_low
               = Len(df)

C8_Witness ==
    /\ ConditionalReturned
    /\ Len(df) = MaxRows
    /\ analysis_results["conditional"].n_high > 0
    /\ analysis_results["conditional"].n_low > 0
    /\ \E i \in 1..Len(df) : df[i].vaccination_rate = threshold

\* C9 (as stated): with threshold = 1 every record the cleaning stage produces falls in
\* the low partition.
C9_ThresholdOneAllLow ==
    (ConditionalReturned /\ threshold = One)
        => /\ analysis_results["conditional"].n_high = 0
           /\ analysis_results["conditional"].n_low = Len(df)

\* C9 (amended): with threshold = 1 a record falls in the low partition exactly when its
\* vaccination_rate is below 1; a record with people_vaccinated >= population
\* (rate >= 1, not clipped by the cleaning stage) falls in the high partition.
C9_ThresholdOneSplitsAtOne ==
    (ConditionalReturned /\ threshold = One)
        => /\ analysis_results["conditional"].n_low
                = Cardinality({i \in 1..Len(df) :
                                 df[i].vaccination_rate[1] < df[i].vaccination_rate[2]})
           /\ analysis_results["conditional"].n_high
                = Cardinality({i \in 1..Len(df) :
                                 df[i].vaccination_rate[1] >= df[i].vaccination_rate[2]})

C9_Witness ==
    /\ ConditionalReturned /\ threshold = One
    /\ \E i \in 1..Len(df) : df[i].vaccination_rate = One
    /\ \E i \in 1..Len(df) : RGt(df[i].vaccination_rate, One)
    /\ \E i \in 1..Len(df) : RLt(df[i].vaccination_rate, One)
    /\ analysis_results["conditional"].n_high = 2

\* The end-to-end scenario of the specification: I = [1,1,0,1], V = [0.3,0.6,0.6,0.8].
ScenarioRows ==
    [i \in 1..4 |-> [date |-> EstDay(i),
                     I |-> <<1, 1, 0, 1>>[i],
                     vaccination_rate |-> Frac(<<3, 6, 6, 8>>[i], 10)]]

ScenarioHolds ==
    LET r == calculate_conditional_probabilities(ScenarioRows, DefaultThreshold)
    IN  /\ r.p_I_high = <<2, 3>>
        /\ r.p_I_low = <<1, 1>>
        /\ r.difference = <<-1, 3>>

\* C10: with both partitions non-empty, p_I_high is the share of records with I = 1 among
\* those with vaccination_rate >= threshold (the boundary record counts as high), p_I_low
\* the same over vaccination_rate < threshold, difference = p_I_high - p_I_low; the
\* scenario I = [1,1,0,1], V = [0.3,0.6,0.6,0.8], threshold 0.5 gives 2/3, 1 and -1/3.
C10_ConditionalProbabilities ==
    /\ ScenarioHolds
    /\ (ConditionalReturned /\ HighRows # {} /\ LowRows # {})
         => LET c == analysis_results["conditional"]
                nh == Cardinality(HighRows)
                nl == Cardinality(LowRows)
                xh == InfectedAmong(HighRows)
                xl == InfectedAmong(LowRows)
            IN  /\ c.p_I_high[1] * nh = xh * c.p_I_high[2]
                /\ c.p_I_low[1] * nl = xl * c.p_I_low[2]
                /\ c.difference[1] * (nh * nl) = (xh * nl - xl * nh) * c.difference[2]

C10_Witness ==
    /\ ConditionalReturned
    /\ HighRows # {} /\ LowRows # {}
    /\ \E i \in HighRows : df[i].vaccination_rate = threshold /\ df[i].I = 1
    /\ \E i \in HighRows : df[i].I = 0
    /\ analysis_results["conditional"].difference = <<-1, 2>>

ConditionalCalled == pc \notin {"bernoulli", "conditional"}
BernoulliReturned == "bernoulli" \in DOMAIN analysis_results

\* C11: when a vaccination partition is empty, calculate_conditional_probabilities
\* raises nothing, the empty partition's standard error is 0, and the empty partition's
\* conditional probability and the reported difference are defined numbers, not NaN.
C11_EmptyPartitionGuardedDefaults ==
    (ConditionalCalled /\ (HighRows = {} \/ LowRows = {}))
        => /\ ConditionalReturned
           /\ LET c == analysis_results["conditional"]
              IN  /\ HighRows = {} => (c.se_high_sq = Zero /\ ~IsNaN(c.p_I_high))
                  /\ LowRows = {} => (c.se_low_sq = Zero /\ ~IsNaN(c.p_I_low))
                  /\ ~IsNaN(c.difference)

\* The part of C11 the code does keep: no exception, standard error 0.
C11_EmptyPartitionReturns ==
    /\ ConditionalReturned
    /\ HighRows = {} /\ LowRows # {}
    /\ analysis_results["conditional"].se_high_sq = Zero
    /\ analysis_results["conditional"].n_high = 0

\* C12: on every non-empty table the cleaning stage produces, I is 0 or 1 and
\* vaccination_rate lies in [0, 1] on every record, so 0 <= p_I <= 1 and 0 <= p_V <= 1.
C12_ParametersInUnitInterval ==
    (BernoulliReturned /\ Len(df) > 0)
        => /\ \A i \in 1..Len(df) :
                 /\ df[i].I \in {0, 1}
                 /\ RGeq(df[i].vaccination_rate, Zero)
                 /\ RGeq(One, df[i].vaccination_rate)
           /\ LET b == analysis_results["bernoulli"]
              IN  /\ RGeq(b.p_I, Zero) /\ RGeq(One, b.p_I)
                  /\ RGeq(b.p_V, Zero) /\ RGeq(One, b.p_V)

\* The indicator half of C12 does hold where the vaccination half fails.
C12_RateAboveOne ==
    /\ BernoulliReturned
    /\ \A i \in 1..Len(df) : df[i].I \in {0, 1}
    /\ RGeq(analysis_results["bernoulli"].p_I, Zero)
    /\ RGeq(One, analysis_results["bernoulli"].p_I)
    /\ RGt(analysis_results["bernoulli"].p_V, One)

BinomialReturned == "binomial_weekly" \in DOMAIN analysis_results

\* C13: calculate_binomial_parameters returns expected_mean = n_trials * p_I and
\* expected_variance = n_trials * p_I * (1 - p_I), with p_I the share of records with
\* I = 1 (NaN on an empty table) and n_trials = 7 for "W", 30 for "M" and "ME", 7 for any
\* other period; the two values are functions of p_I and the period alone.
C13_BinomialExpectedMoments ==
    BinomialReturned
        => LET b == analysis_results["binomial_weekly"].results
               n == Len(df)
               x == InfectedAmong(1..n)
               t == IF b.period = "W" THEN 7
                    ELSE IF b.period \in {"M", "ME"} THEN 30
                    ELSE 7
           IN  /\ b.n_trials = t
               /\ IF n = 0
                  THEN IsNaN(b.expected_mean) /\ IsNaN(b.expected_variance)
                  ELSE /\ b.expected_mean[1] * n = t * x * b.expected_mean[2]
                       /\ b.expected_variance[1] * n * n
                              = t * x * (n - x) * b.expected_variance[2]

C13_Witness ==
    /\ BinomialReturned
    /\ analysis_results["binomial_weekly"].results.period = "D"
    /\ analysis_results["binomial_weekly"].results.n_trials = 7
    /\ Len(df) = 2 /\ df[1].I = 0 /\ df[2].I = 1
    /\ analysis_results["binomial_weekly"].results.expected_mean = <<7, 2>>
    /\ analysis_results["binomial_weekly"].results.expected_variance = <<7, 4>>


-----------------------------------------------------------------------------
(* SpecStages: the stages main runs after extraction, each called with the   *)
(* arguments its signature takes, on raw tables of every shape: with or      *)
(* without their date column, matching the configured country or not.        *)

\* Two days inside the analysis period, in adjacent weeks, and one day after it, one
\* week further on.
StageDays == {3, 9, 17}
Countries == {US, "Atlantis"}

StageOwidRows ==
    [location : {US}, date : StageDays, new_cases : {<<-1>>, <<2>>},
     people_vaccinated : {NaN, <<1>>}, population : {<<Population>>}]

StageWhoRows == [Country : {USA}, Date_reported : StageDays, New_cases : {<<0>>, <<3>>}]

\* NYT reports cumulative counts on the two days inside the period.
StageNytDays == {3, 9}

StageNytRows == [date : StageNytDays, cases : {1, 2}]

StageOwidTables ==
    [cols : {OwidCols, OwidCols \ {"date"}}, rows : SeqsUpTo(StageOwidRows, MaxOwidRows)]

StageWhoTables ==
    [cols : {WhoCols, WhoCols \ {"Date_reported"}}, rows : SeqsUpTo(StageWhoRows, MaxWhoRows)]

StageNytTables ==
    [cols : {NytCols, NytCols \ {"date"}}, rows : SeqsUpTo(StageNytRows, MaxNytRows)]

InitStages ==
    /\ pc = "process"
    /\ save_raw = SAVE_RAW
    /\ country \in Countries
    /\ owid_df \in StageOwidTables
    /\ who_df \in StageWhoTables
    /\ nyt_df \in StageNytTables
    /\ df = <<>>
    /\ processed = NoResults
    /\ threshold = DefaultThreshold
    /\ analysis_results = NoResults
    /\ chart_data = NoResults
    /\ report = NoResults
    /\ raised = "none"
    /\ fetched = <<>>
    /\ rawFiles = {}
    /\ stages = <<>>
    /\ printed = <<>>
    /\ handled = 0
    /\ exitStatus = -1

StageFrame == UNCHANGED <<save_raw, country, owid_df, who_df, nyt_df, threshold,
                          fetched, rawFiles, printed, handled, exitStatus>>

StageProcess ==
    /\ pc = "process"
    /\ LET r == process_all_data(owid_df, who_df, country)
       IN  IF r.raised = "none"
           THEN /\ df' = r.merged_df
                /\ processed' = ProcessedTables(r)
                /\ pc' = "analysis"
                /\ raised' = raised
           ELSE /\ UNCHANGED <<df, processed>>
                /\ pc' = "raised"
                /\ raised' = r.raised
    /\ stages' = Append(stages, "process")
    /\ UNCHANGED <<analysis_results, chart_data, report>>
    /\ StageFrame

StageAnalysis ==
    /\ pc = "analysis"
    /\ LET r == run_complete_analysis(df)
       IN  IF r.raised = "none"
           THEN analysis_results' = r.all_results /\ pc' = "dashboard" /\ raised' = raised
           ELSE analysis_results' = analysis_results /\ pc' = "raised" /\ raised' = r.raised
    /\ stages' = Append(stages, "analysis")
    /\ UNCHANGED <<df, processed, chart_data, report>>
    /\ StageFrame

StageChart ==
    /\ pc = "dashboard"
    /\ LET r == create_html_dashboard(df, analysis_results, owid_df, who_df, nyt_df)
       IN  IF r.raised = "none"
           THEN chart_data' = r /\ pc' = "done" /\ raised' = raised
           ELSE chart_data' = chart_data /\ pc' = "raised" /\ raised' = r.raised
    /\ stages' = Append(stages, "dashboard")
    /\ UNCHANGED <<df, processed, analysis_results, report>>
    /\ StageFrame

\* generate_json_report on the structure run_complete_analysis returned
StageReport ==
    /\ pc = "dashboard"
    /\ DOMAIN report = {}
    /\ report' = generate_json_report(analysis_results).file
    /\ UNCHANGED <<pc, df, processed, analysis_results, chart_data, raised, stages>>
    /\ StageFrame

NextStages == StageProcess \/ StageAnalysis \/ StageChart \/ StageReport

SpecStages == InitStages /\ [][NextStages]_vars

-----------------------------------------------------------------------------
(* Properties of the stages (SpecStages) *)

LacksDateColumn ==
    \/ "date" \notin owid_df.cols
    \/ "Date_reported" \notin who_df.cols
    \/ "date" \notin nyt_df.cols

\* C6: when a source table lacks its date column, that source contributes an empty
\* series and no stage raises: processing, analysis and chart preparation complete.
C6_MissingDateColumnIsNotFatal ==
    LacksDateColumn
        => /\ raised = "none"
           /\ pc = "done" =>
                /\ "date" \notin owid_df.cols => chart_data.owid_series = <<>>
                /\ "Date_reported" \notin who_df.cols => chart_data.who_series = <<>>
                /\ "date" \notin nyt_df.cols => chart_data.nyt_series = <<>>

WellFormed ==
    /\ owid_df.cols = OwidCols
    /\ who_df.cols = WhoCols
    /\ nyt_df.cols = NytCols

NoCountryMatch ==
    /\ \A i \in 1..Len(owid_df.rows) :
           owid_df.rows[i].location # country_mapping(country).owid_name
    /\ \A i \in 1..Len(who_df.rows) :
           who_df.rows[i].Country # country_mapping(country).who_name

\* C7: when the configured country matches no row of the OWID and WHO tables, every
\* stage (cleaning, merging, run_complete_analysis, chart preparation) completes on
\* the zero-row tables without raising.
C7_NoCountryMatchIsNotFatal ==
    (WellFormed /\ NoCountryMatch /\ owid_df.rows # <<>> /\ who_df.rows # <<>>
     /\ \E i \in 1..Len(nyt_df.rows) : InPeriod(nyt_df.rows[i].date))
        => raised = "none"


ChartReturned == pc = "done"

\* The NYT rows prepare_chart_data keeps: in date order, inside the analysis period.
NytInRange ==
    LET Dated(r) == InPeriod(r.date)
    IN  SelectSeq(SortRows(nyt_df.rows, "date"), Dated)

\* The increment the conversion is to give the i-th in-range NYT row.
NytIncrement(i) ==
    IF i = 1 THEN NytInRange[1].cases
    ELSE IF NytInRange[i].cases > NytInRange[i - 1].cases
         THEN NytInRange[i].cases - NytInRange[i - 1].cases
         ELSE 0

RECURSIVE SumOfIncrements(_)
SumOfIncrements(S) ==
    IF S = {} THEN 0
    ELSE LET i == CHOOSE j \in S : TRUE
         IN  NytIncrement(i) + SumOfIncrements(S \ {i})

\* C14: the NYT cumulative counts become increments: the first in-range day keeps its
\* cumulative value, every later day gets max(0, its cumulative minus the previous
\* day's), and the weekly NYT series sums these increments; [10, 10, 15, 12] gives
\* [10, 0, 5, 0].
C14_CumulativeToIncremental ==
    /\ CumulativeToDaily(<<10, 10, 15, 12>>) = <<10, 0, 5, 0>>
    /\ (ChartReturned /\ "date" \in nyt_df.cols)
          => \A k \in 1..Len(chart_data.nyt_series) :
                chart_data.nyt_series[k].value
                    = SumOfIncrements({i \in 1..Len(NytInRange) :
                           WeekEnd(NytInRange[i].date) = chart_data.nyt_series[k].date})

\* A correction: the second week's cumulative count is below the first week's.
C14_Witness ==
    /\ ChartReturned
    /\ nyt_df.cols = NytCols
    /\ Len(nyt_df.rows) = 2
    /\ nyt_df.rows[1].date = 9 /\ nyt_df.rows[1].cases = 1
    /\ nyt_df.rows[2].date = 3 /\ nyt_df.rows[2].cases = 2
    /\ chart_data.nyt_series = <<[date |-> 7, value |-> 2], [date |-> 14, value |-> 0]>>


ProcessReturned == DOMAIN processed # {}

\* Dates of the cleaned OWID table
CleanedOwidDates == {processed.owid_processed[i].date : i \in 1..Len(processed.owid_processed)}

\* The raw OWID rows come one per date, in date order.
OwidChronological ==
    \A i, j \in 1..Len(owid_df.rows) :
        i < j => owid_df.rows[i].date < owid_df.rows[j].date

\* C15: cleaning a source that reports one row per date, possibly with gaps, gives
\* exactly one row for every calendar day from the earliest to the latest observed date;
\* a day the source did not report has new_cases = 0 and the vaccination rate of the day
\* before.
C15_CalendarCompletion ==
    (ProcessReturned /\ OwidChronological /\ processed.owid_processed # <<>>)
        => LET rows == processed.owid_processed
               RowsOf(d) == {i \in 1..Len(rows) : rows[i].date = d}
               Reported(d) == \E i \in 1..Len(owid_df.rows) :
                                 /\ owid_df.rows[i].date = d
                                 /\ owid_df.rows[i].location
                                        = country_mapping(country).owid_name
           IN  \A d \in MinOf(CleanedOwidDates)..MaxOf(CleanedOwidDates) :
                  /\ Cardinality(RowsOf(d)) = 1
                  /\ ~Reported(d) =>
                        \A i \in RowsOf(d) : \A j \in RowsOf(d - 1) :
                            /\ rows[i].new_cases = <<0>>
                            /\ rows[i].vaccination_rate = rows[j].vaccination_rate

\* What cleaning does with a gap: the two reported days and nothing in between.
C15_GapKept ==
    /\ ProcessReturned
    /\ Len(owid_df.rows) = 2
    /\ owid_df.rows[1].date = 3 /\ owid_df.rows[2].date = 9
    /\ Len(processed.owid_processed) = 2
    /\ CleanedOwidDates = {3, 9}


\* C16: whatever the raw input (rows out of order, a date reported twice), the merged
\* table handed to the estimator has one row per date, in strictly ascending date order,
\* and its I on a date is the OWID indicator of that date.
C16_MergedOneRowPerDateAscending ==
    ProcessReturned
        => /\ \A i, j \in 1..Len(df) : i < j => df[i].date < df[j].date
           /\ \A i \in 1..Len(df) :
                 \E k \in 1..Len(processed.owid_processed) :
                     /\ processed.owid_processed[k].date = df[i].date
                     /\ processed.owid_processed[k].I = df[i].I

\* A date OWID reports twice stays twice in the merged table.
C16_DateKeptTwice ==
    /\ ProcessReturned
    /\ Len(owid_df.rows) = 2 /\ owid_df.rows[1].date = owid_df.rows[2].date
    /\ Len(df) = 2 /\ df[1].date = df[2].date
    /\ df[1].I = processed.owid_processed[1].I
    /\ df[2].I = processed.owid_processed[2].I


\* The weekly aggregate of a cleaned table has one row for each week from the week of
\* the table's earliest date to the week of its latest date, labelled by the Sunday
\* ending the week, in ascending order.
OneRowPerWeek(weekly, cleaned) ==
    cleaned # <<>>
        => LET ds == {cleaned[i].date : i \in 1..Len(cleaned)}
               first == ((MinOf(ds) + 6) \div 7) * 7
               last == ((MaxOf(ds) + 6) \div 7) * 7
           IN  /\ Len(weekly) = ((last - first) \div 7) + 1
               /\ \A k \in 1..Len(weekly) : weekly[k].date = first + 7 * (k - 1)

\* C17: aggregate_by_period with period "W" returns exactly one row per calendar week,
\* every week ending on the same weekday, from the week of the earliest input date to
\* the week of the latest, ascending, no week twice and none missing, a week without
\* input rows included.
C17_OneRowPerCalendarWeek ==
    ProcessReturned
        => /\ OneRowPerWeek(processed.weekly_owid, processed.owid_processed)
           /\ OneRowPerWeek(processed.weekly_who, processed.who_processed)

\* Rows in the first and the third week, given latest first: the second week is there,
\* empty.
C17_Witness ==
    /\ ProcessReturned
    /\ Len(owid_df.rows) = 2
    /\ owid_df.rows[1].date = 17 /\ owid_df.rows[2].date = 3
    /\ Len(processed.weekly_owid) = 3
    /\ processed.weekly_owid[1].date = 7 /\ processed.weekly_owid[1].I_count = 1
    /\ processed.weekly_owid[2].date = 14 /\ processed.weekly_owid[2].I_count = 0
    /\ processed.weekly_owid[3].date = 21 /\ processed.weekly_owid[3].I_count = 1


\* C18: every weekly new_cases total is non-negative, whatever the raw daily values
\* (negative corrections included): new_cases_sum of the weekly aggregates, and the OWID
\* and NYT weekly series of prepare_chart_data.
C18_WeeklyTotalsNonNegative ==
    /\ ProcessReturned
          => /\ \A k \in 1..Len(processed.weekly_owid) :
                   RGeq(processed.weekly_owid[k].new_cases_sum, Zero)
             /\ \A k \in 1..Len(processed.weekly_who) :
                   RGeq(processed.weekly_who[k].new_cases_sum, Zero)
    /\ ChartReturned
          => /\ \A k \in 1..Len(chart_data.owid_series) : chart_data.owid_series[k].value >= 0
             /\ \A k \in 1..Len(chart_data.nyt_series) : chart_data.nyt_series[k].value >= 0

\* A negative OWID week next to NYT weeks that are clamped at zero.
C18_NegativeOwidWeek ==
    /\ ChartReturned
    /\ \E k \in 1..Len(chart_data.owid_series) : chart_data.owid_series[k].value < 0
    /\ \E k \in 1..Len(processed.weekly_owid) :
           RLt(processed.weekly_owid[k].new_cases_sum, Zero)
    /\ Len(chart_data.nyt_series) = 2
    /\ \A k \in 1..Len(chart_data.nyt_series) : chart_data.nyt_series[k].value >= 0


\* The dates of the three weekly series and of the comparison
ChartDates ==
    SeriesDates(chart_data.owid_series) \cup SeriesDates(chart_data.who_series)
    \cup SeriesDates(chart_data.nyt_series)
    \cup SeqRange(chart_data.threeSourceComparison.dates)

\* C19 (as stated): every date of the OWID, WHO and NYT weekly series, and so every
\* comparison date, lies inside the analysis period, both ends included.
C19_SeriesDatesInsidePeriod ==
    ChartReturned => \A d \in ChartDates : PeriodStart <= d /\ d <= PeriodEnd

\* Days of the source rows that may feed a weekly series: inside the period
OwidDaysInPeriod ==
    {owid_df.rows[i].date : i \in {j \in 1..Len(owid_df.rows) :
        /\ owid_df.rows[j].location = US
        /\ PeriodStart <= owid_df.rows[j].date /\ owid_df.rows[j].date <= PeriodEnd}}
NytDaysInPeriod ==
    {nyt_df.rows[i].date : i \in {j \in 1..Len(nyt_df.rows) :
        PeriodStart <= nyt_df.rows[j].date /\ nyt_df.rows[j].date <= PeriodEnd}}

\* A date labels a week between the weeks of two of the given days: the Sunday on or
\* after a day of that week.
LabelsWeekAmong(d, days) ==
    /\ d % 7 = 0
    /\ \E a, b \in days : a <= d /\ d - 6 <= b

\* C19 (amended): only rows dated inside the period feed the series. A WHO series date
\* is a reported date inside the period; an OWID or NYT series date is the Sunday ending
\* a week between the weeks of that source's first and last in-period day, so it lies
\* inside the period or on the Sunday ending the period's last week; every comparison
\* date is one of these dates.
C19_SeriesDatesAreWeekEndsOfPeriodRows ==
    ChartReturned
        => /\ \A d \in SeriesDates(chart_data.who_series) :
                  PeriodStart <= d /\ d <= PeriodEnd
           /\ \A d \in SeriesDates(chart_data.owid_series) :
                  LabelsWeekAmong(d, OwidDaysInPeriod)
           /\ \A d \in SeriesDates(chart_data.nyt_series) :
                  LabelsWeekAmong(d, NytDaysInPeriod)
           /\ \A d \in ChartDates : PeriodStart <= d /\ d <= PeriodEnd + 6
           /\ SeqRange(chart_data.threeSourceComparison.dates)
                 \subseteq SeriesDates(chart_data.owid_series)
                            \cup SeriesDates(chart_data.who_series)
                            \cup SeriesDates(chart_data.nyt_series)

\* The period's last week: its rows are inside the period, its label is the day after.
C19_Witness ==
    /\ ChartReturned
    /\ \E i \in 1..Len(owid_df.rows) : owid_df.rows[i].date = 9
    /\ \E d \in SeriesDates(chart_data.owid_series) : d = PeriodEnd + 1
    /\ \E d \in SeriesDates(chart_data.nyt_series) : d = PeriodEnd + 1
    /\ SeriesDates(chart_data.who_series) = {9}
    /\ chart_data.threeSourceComparison.dates # <<>>


AnalysisReturned == DOMAIN analysis_results # {}

\* C20: the structure run_complete_analysis returns has the sections bernoulli,
\* conditional, binomial_weekly, statistical_tests, correlation_analysis and
\* weekly_actual, whatever the input table.
C20_FixedShapeResult ==
    AnalysisReturned
        => DOMAIN analysis_results
               = {"bernoulli", "conditional", "binomial_weekly", "statistical_tests",
                  "correlation_analysis", "weekly_actual"}

\* The sections the code does return
C20_FiveSections ==
    /\ AnalysisReturned
    /\ DOMAIN analysis_results
           = {"bernoulli", "conditional", "binomial_weekly", "statistical_tests",
              "weekly_actual"}
    /\ analysis_results["statistical_tests"].raised = "none"


ReportWritten == DOMAIN report # {}

\* The JSON type a value of the result structure is to come back with
JsonTypeOf(field) ==
    IF field = "significant" THEN "boolean"
    ELSE IF field \in {"test_type", "period"} THEN "string"
    ELSE "number"

\* C21: the file generate_json_report writes, parsed back, has every scalar of every
\* section with its own value and JSON type (a number a number, the significance flag a
\* boolean), and weekly_actual as an index array of ISO dates with a values array of
\* the same length, one entry per week.
C21_JsonRoundTrip ==
    ReportWritten
        => /\ DOMAIN report = DOMAIN analysis_results
           /\ \A key \in DOMAIN report \ {"weekly_actual"} :
                 \A f \in DOMAIN report[key] :
                     /\ report[key][f].json = JsonTypeOf(f)
                     /\ report[key][f].value = analysis_results[key][f]
           /\ LET w == analysis_results["weekly_actual"]
              IN  /\ Len(report["weekly_actual"].index) = Len(w)
                  /\ Len(report["weekly_actual"].values) = Len(w)
                  /\ \A k \in 1..Len(w) :
                        /\ report["weekly_actual"].index[k] = [iso |-> w[k].date]
                        /\ report["weekly_actual"].values[k] = w[k].value

\* A z-test on two non-degenerate partitions: the flag comes back as text.
C21_FlagComesBackAsText ==
    /\ ReportWritten
    /\ Len(df) = 2
    /\ report["statistical_tests"].significant.json = "string"
    /\ report["statistical_tests"].p_value.json = "number"
    /\ report["statistical_tests"].n_high.value = 1
    /\ Len(report["weekly_actual"].index) = 1


\* The raw OWID rows are all of the configured country, one per date (in any order).
OwidOneRowPerDate ==
    /\ \A i \in 1..Len(owid_df.rows) :
           owid_df.rows[i].location = country_mapping(country).owid_name
    /\ \A i, j \in 1..Len(owid_df.rows) :
           i # j => owid_df.rows[i].date # owid_df.rows[j].date
    /\ Len(processed.owid_processed) = Len(owid_df.rows)

\* Rows of the raw table dated before row i that report a vaccination figure
KnownBefore(i) ==
    {j \in 1..Len(owid_df.rows) :
        /\ owid_df.rows[j].date < owid_df.rows[i].date
        /\ ~IsNaN(owid_df.rows[j].people_vaccinated)}

\* C25: after cleaning, a day whose vaccination figure is missing carries the figure of
\* the most recent earlier date that has one, in date order whatever the order of the
\* input rows; a day before the first known figure gets vaccination_rate 0.
C25_ForwardFillInDateOrder ==
    (ProcessReturned /\ OwidOneRowPerDate) =>
        \A i \in 1..Len(owid_df.rows) :
            IsNaN(owid_df.rows[i].people_vaccinated) =>
                LET cleaned == processed.owid_processed[i]
                    known == KnownBefore(i)
                IN  IF known = {}
                    THEN /\ IsNaN(cleaned.people_vaccinated)
                         /\ cleaned.vaccination_rate = Zero
                    ELSE LET last == CHOOSE j \in known :
                                        \A k \in known :
                                            owid_df.rows[k].date <= owid_df.rows[j].date
                         IN  cleaned.people_vaccinated
                                 = owid_df.rows[last].people_vaccinated

\* The rows come latest date first; the earlier day, which reports no figure, is given
\* the figure of the later day.
C25_FilledFromLaterDate ==
    /\ ProcessReturned
    /\ OwidOneRowPerDate
    /\ Len(owid_df.rows) = 2
    /\ owid_df.rows[1].date > owid_df.rows[2].date
    /\ ~IsNaN(owid_df.rows[1].people_vaccinated)
    /\ IsNaN(owid_df.rows[2].people_vaccinated)
    /\ processed.owid_processed[2].people_vaccinated = owid_df.rows[1].people_vaccinated
    /\ processed.owid_processed[2].vaccination_rate # Zero


\* prepare_chart_data was called / nothing before its NYT block raises
ChartCalled == \E i \in 1..Len(stages) : stages[i] = "dashboard"

NytHasNoRowInPeriod ==
    /\ "date" \in nyt_df.cols
    /\ \A i \in 1..Len(nyt_df.rows) : ~InPeriod(nyt_df.rows[i].date)

\* C26: when the NYT table has a date column but no row inside the period (or no row at
\* all), prepare_chart_data treats the NYT series as empty and completes without
\* raising.
C26_EmptyNytSeries ==
    (ChartCalled /\ WellFormed /\ NytHasNoRowInPeriod /\ df # <<>>) =>
        /\ ChartReturned
        /\ chart_data.nyt_series = <<>>

\* A well-formed NYT table without rows: the call ends in IndexError.
C26_EmptyNytRaises ==
    /\ ChartCalled
    /\ WellFormed
    /\ nyt_df.rows = <<>>
    /\ df # <<>>
    /\ pc = "raised"
    /\ raised = "IndexError"
    /\ DOMAIN chart_data = {}


-----------------------------------------------------------------------------
(* Spec: main.py, from the first fetch to the exit of the process *)

Sources == <<"owid", "who", "nyt">>

SourceIndex(src) == CHOOSE i \in 1..Len(Sources) : Sources[i] = src

\* extract_all_data fetches OWID, then WHO, then NYT, then returns to main
AfterExtract(src) ==
    IF SourceIndex(src) < Len(Sources) THEN <<"extract", Sources[SourceIndex(src) + 1]>>
    ELSE <<"stage", "process">>

\* Mutant of AfterFetchFailure: the except clause logs the error and falls through
\* instead of re-raising.
AfterFetchFailureSwallowed(src) == AfterExtract(src)

\* except Exception as e: print(...); raise
AfterFetchFailure(src) == <<"except">>

\* Mutant of ExitStatusOnError: the handler exits with the success status.
ExitStatusSuccess == 1 - 1

\* sys.exit(1)
ExitStatusOnError == 1

\* What a fetch can return: a table with or without its date column
FetchedRows(src) ==
    IF src = "owid"
    THEN [location : {US}, date : {3}, new_cases : {NaN, <<2>>},
          people_vaccinated : {<<1>>}, population : {<<Population>>}]
    ELSE IF src = "who"
    THEN [Country : {USA}, Date_reported : {3}, New_cases : {<<0>>, <<3>>}]
    ELSE [date : {3}, cases : {1, 2}]

FetchedTables(src) ==
    LET all == IF src = "owid" THEN OwidCols ELSE IF src = "who" THEN WhoCols ELSE NytCols
        dateCol == IF src = "who" THEN "Date_reported" ELSE "date"
    IN  [cols : {all, all \ {dateCol}}, rows : SeqsUpTo(FetchedRows(src), MaxFetchedRows)]

\* Python's binding of a call's arguments to a signature: TypeError when there are too
\* many positional arguments, a keyword names no parameter, or a keyword names a
\* parameter a positional argument already filled.
BindCall(params, npos, keywords) ==
    IF \/ npos > Len(params)
       \/ \E k \in keywords : k \notin SeqRange(params)
       \/ \E k \in keywords : k \in {params[i] : i \in 1..npos}
    THEN "TypeError"
    ELSE "none"

ProcessAllDataParams == <<"owid_df", "who_df", "country", "save_processed">>
RunCompleteAnalysisParams == <<"df", "infection_col", "vaccination_col">>
CreateHtmlDashboardParams ==
    <<"df", "analysis_results", "source_urls", "owid_df", "who_df", "nyt_df", "save_path">>

\* The call main makes for each stage: the binding of its arguments, then the body.
MainStageCall(stage) ==
    IF stage = "process"
    THEN \* process_all_data(owid_df, who_df, nyt_df, country=..., save_processed=...)
         IF BindCall(ProcessAllDataParams, 3, {"country", "save_processed"}) # "none"
         THEN [raised |-> "TypeError", entered |-> FALSE]
         ELSE [entered |-> TRUE] @@ process_all_data(owid_df, who_df, country)
    ELSE IF stage = "analysis"
    THEN \* run_complete_analysis(merged_df)
         IF BindCall(RunCompleteAnalysisParams, 1, {}) # "none"
         THEN [raised |-> "TypeError", entered |-> FALSE]
         ELSE [entered |-> TRUE] @@ run_complete_analysis(df)
    ELSE \* create_html_dashboard(merged_df, analysis_results, source_urls,
         \*                       owid_df, who_df, nyt_df, save_path="index.html")
         IF BindCall(CreateHtmlDashboardParams, 6, {"save_path"}) # "none"
         THEN [raised |-> "TypeError", entered |-> FALSE]
         ELSE [entered |-> TRUE]
              @@ create_html_dashboard(df, analysis_results, owid_df, who_df, nyt_df)

Init ==
    /\ pc = <<"extract", "owid">>
    /\ save_raw = SAVE_RAW
    /\ country = US
    /\ owid_df = EmptyTable({})
    /\ who_df = EmptyTable({})
    /\ nyt_df = EmptyTable({})
    /\ df = <<>>
    /\ processed = NoResults
    /\ threshold = DefaultThreshold
    /\ analysis_results = NoResults
    /\ chart_data = NoResults
    /\ report = NoResults
    /\ raised = "none"
    /\ fetched = [s \in SeqRange(Sources) |-> 0]
    /\ rawFiles = {}
    /\ stages = <<>>
    /\ printed = <<>>
    /\ handled = 0
    /\ exitStatus = -1

SetTable(src, t) ==
    /\ owid_df' = IF src = "owid" THEN t ELSE owid_df
    /\ who_df' = IF src = "who" THEN t ELSE who_df
    /\ nyt_df' = IF src = "nyt" THEN t ELSE nyt_df

\* extract_*_data: the table is fetched, written to data/raw and returned
FetchOk(src) ==
    /\ pc = <<"extract", src>>
    /\ save_raw
    /\ fetched' = [fetched EXCEPT ![src] = @ + 1]
    /\ \E t \in FetchedTables(src) : SetTable(src, t)
    /\ rawFiles' = rawFiles \cup {src}
    /\ pc' = AfterExtract(src)
    /\ UNCHANGED <<save_raw, country, df, processed, threshold, analysis_results, chart_data, report, raised,
                   stages, printed, handled, exitStatus>>

\* extract_*_data: the download or the parse raises; nothing was written yet
FetchFails(src) ==
    /\ pc = <<"extract", src>>
    /\ fetched' = [fetched EXCEPT ![src] = @ + 1]
    /\ printed' = Append(printed, <<"Error extracting", src>>)
    /\ raised' = "FetchError"
    /\ pc' = AfterFetchFailure(src)
    /\ UNCHANGED <<save_raw, country, owid_df, who_df, nyt_df, df, processed, threshold, analysis_results,
                   chart_data, report, rawFiles, stages, handled, exitStatus>>

\* extract_*_data: os.makedirs or to_csv raises; the file may exist in part
SaveFails(src) ==
    /\ pc = <<"extract", src>>
    /\ save_raw
    /\ fetched' = [fetched EXCEPT ![src] = @ + 1]
    /\ rawFiles' \in {rawFiles, rawFiles \cup {src}}
    /\ printed' = Append(printed, <<"Error extracting", src>>)
    /\ raised' = "OSError"
    /\ pc' = AfterFetchFailure(src)
    /\ UNCHANGED <<save_raw, country, owid_df, who_df, nyt_df, df, processed, threshold, analysis_results,
                   chart_data, report, stages, handled, exitStatus>>

\* extract_*_data called with save_path=None (save_raw false): the table is read, then
\* os.path.dirname(None) raises TypeError inside the try block before anything is
\* written; the except clause prints and re-raises, so the table is never returned.
SaveWithoutPath(src) ==
    /\ pc = <<"extract", src>>
    /\ ~save_raw
    /\ fetched' = [fetched EXCEPT ![src] = @ + 1]
    /\ printed' = Append(printed, <<"Error extracting", src>>)
    /\ raised' = "TypeError"
    /\ pc' = AfterFetchFailure(src)
    /\ UNCHANGED <<save_raw, country, owid_df, who_df, nyt_df, df, processed, threshold,
                   analysis_results, chart_data, report, rawFiles, stages, handled,
                   exitStatus>>

\* The next stage call of main's try block; after the dashboard the summary is printed
\* and main returns.
MainStage ==
    /\ Len(pc) = 2 /\ pc[1] = "stage"
    /\ LET stage == pc[2]
           r == MainStageCall(stage)
       IN  /\ stages' = IF r.entered THEN Append(stages, stage) ELSE stages
           /\ IF r.raised # "none"
              THEN /\ raised' = r.raised
                   /\ pc' = <<"except">>
                   /\ UNCHANGED <<df, processed, analysis_results, chart_data, report, printed, exitStatus>>
              ELSE /\ raised' = raised
                   /\ df' = IF stage = "process" THEN r.merged_df ELSE df
                   /\ processed' = IF stage = "process" THEN ProcessedTables(r)
                                    ELSE processed
                   /\ analysis_results' = IF stage = "analysis" THEN r.all_results
                                          ELSE analysis_results
                   /\ chart_data' = IF stage = "dashboard" THEN r ELSE chart_data
                   /\ report' = report
                   /\ pc' = IF stage = "process" THEN <<"stage", "analysis">>
                            ELSE IF stage = "analysis" THEN <<"stage", "dashboard">>
                            ELSE <<"returned">>
                   /\ printed' = IF stage = "dashboard"
                                 THEN Append(printed, <<"ANALYSIS COMPLETE!">>)
                                 ELSE printed
                   /\ exitStatus' = IF stage = "dashboard" THEN 0 ELSE exitStatus
    /\ UNCHANGED <<save_raw, country, owid_df, who_df, nyt_df, threshold, fetched, rawFiles, handled>>

\* except Exception as e: print(f"\nERROR: {e}"); traceback; sys.exit(1)
MainExcept ==
    /\ pc = <<"except">>
    /\ handled' = handled + 1
    /\ printed' = Append(printed, <<"ERROR", raised>>)
    /\ exitStatus' = ExitStatusOnError
    /\ pc' = <<"exited">>
    /\ UNCHANGED <<save_raw, country, owid_df, who_df, nyt_df, df, processed, threshold, analysis_results,
                   chart_data, report, raised, fetched, rawFiles, stages>>

Next ==
    \/ \E src \in SeqRange(Sources) : FetchOk(src) \/ FetchFails(src) \/ SaveFails(src)
    \/ MainStage
    \/ MainExcept

Spec == Init /\ [][Next]_vars

-----------------------------------------------------------------------------
(* SpecExtract: extract_all_data called directly, with either value of save_raw *)

InitExtract ==
    /\ pc = <<"extract", "owid">>
    /\ save_raw \in BOOLEAN
    /\ country \in Countries
    /\ owid_df = EmptyTable({})
    /\ who_df = EmptyTable({})
    /\ nyt_df = EmptyTable({})
    /\ df = <<>>
    /\ processed = NoResults
    /\ threshold = DefaultThreshold
    /\ analysis_results = NoResults
    /\ chart_data = NoResults
    /\ report = NoResults
    /\ raised = "none"
    /\ fetched = [s \in SeqRange(Sources) |-> 0]
    /\ rawFiles = {}
    /\ stages = <<>>
    /\ printed = <<>>
    /\ handled = 0
    /\ exitStatus = -1

NextExtract ==
    \E src \in SeqRange(Sources) :
        FetchOk(src) \/ FetchFails(src) \/ SaveFails(src) \/ SaveWithoutPath(src)

SpecExtract == InitExtract /\ [][NextExtract]_vars

\* extract_all_data returned its tuple / an exception left it
ExtractReturned == pc = AfterExtract("nyt")

ExtractRaised == pc = <<"except">>

\* C23: called with save_raw false, extract_all_data, when no download fails, returns
\* the three tables without having written a raw file and without raising.
C23_ExtractWithoutSaving ==
    (~save_raw /\ raised # "FetchError")
        => /\ ~ExtractRaised
           /\ rawFiles = {}
           /\ ExtractReturned => \A src \in SeqRange(Sources) : fetched[src] = 1

\* The OWID table was read and the call ended in the TypeError of dirname(None).
C23_SavePathIsNone ==
    /\ ~save_raw
    /\ ExtractRaised
    /\ raised = "TypeError"
    /\ fetched = [s \in SeqRange(Sources) |-> IF s = "owid" THEN 1 ELSE 0]
    /\ rawFiles = {}
    /\ owid_df = EmptyTable({})


-----------------------------------------------------------------------------
(* SpecMatch: match_weekly_value applied to one date and one source dictionary *)

MatchDays == {1, 7, 8, 14, 16, 21}

MatchValues == {0, 1, 2}

\* A source dictionary: dates (in ascending order of insertion) to weekly values
MatchDicts ==
    UNION {[days -> MatchValues] : days \in SUBSET MatchDays}

InitMatch ==
    /\ pc = "match"
    /\ chart_data \in [date_str : MatchDays, source_dict : MatchDicts, matched_val : {NaN}]
    /\ save_raw = SAVE_RAW
    /\ country = US
    /\ owid_df = EmptyTable({})
    /\ who_df = EmptyTable({})
    /\ nyt_df = EmptyTable({})
    /\ df = <<>>
    /\ processed = NoResults
    /\ threshold = DefaultThreshold
    /\ analysis_results = NoResults
    /\ report = NoResults
    /\ raised = "none"
    /\ fetched = [s \in SeqRange(Sources) |-> 0]
    /\ rawFiles = {}
    /\ stages = <<>>
    /\ printed = <<>>
    /\ handled = 0
    /\ exitStatus = -1

MatchStep ==
    /\ pc = "match"
    /\ chart_data' =
          [chart_data EXCEPT
              !.matched_val = <<match_weekly_value(chart_data.date_str,
                                                   chart_data.source_dict)>>]
    /\ pc' = "done"
    /\ UNCHANGED <<save_raw, country, owid_df, who_df, nyt_df, df, processed, threshold,
                   analysis_results, report, raised, fetched, rawFiles, stages, printed,
                   handled, exitStatus>>

NextMatch == MatchStep

SpecMatch == InitMatch /\ [][NextMatch]_vars

MatchReturned == pc = "done" /\ "matched_val" \in DOMAIN chart_data

\* Entries of the source at most 7 days from the date
NearEntries(d, source_dict) == {x \in DOMAIN source_dict : Abs(d - x) <= 7}

\* C24: the aligned value is the value of an entry nearest to the comparison date among
\* the entries at most 7 days away, and 0.0 when the source has no entry within 7 days.
C24_NearestWithinSevenDays ==
    MatchReturned =>
        LET d == chart_data.date_str
            near == NearEntries(d, chart_data.source_dict)
        IN  IF near = {} THEN chart_data.matched_val = <<0>>
            ELSE \E x \in near :
                    /\ \A y \in near : Abs(d - x) <= Abs(d - y)
                    /\ chart_data.matched_val = <<chart_data.source_dict[x]>>

\* No entry at the date itself; a nearer and a farther entry within 7 days hold different
\* values and a third entry lies beyond 7 days; the nearer one's value is returned.
C24_Witness ==
    /\ MatchReturned
    /\ LET d == chart_data.date_str
           sd == chart_data.source_dict
       IN  /\ d \notin DOMAIN sd
           /\ \E x, y \in NearEntries(d, sd) :
                  /\ Abs(d - x) < Abs(d - y)
                  /\ sd[x] # sd[y]
                  /\ sd[x] # 0
                  /\ chart_data.matched_val = <<sd[x]>>
           /\ \E z \in DOMAIN sd : Abs(d - z) > 7

\* C27: when the source has an entry dated exactly the comparison date, the aligned
\* value is that entry's own value, 0.0 included: a zero at the exact date is not
\* replaced by the value of a neighbouring week.
C27_ExactEntryWins ==
    (MatchReturned /\ chart_data.date_str \in DOMAIN chart_data.source_dict)
        => chart_data.matched_val = <<chart_data.source_dict[chart_data.date_str]>>

\* A zero at the exact date with a non-zero entry one day away: zero is returned.
C27_Witness ==
    /\ MatchReturned
    /\ LET d == chart_data.date_str
           sd == chart_data.source_dict
       IN  /\ d \in DOMAIN sd
           /\ sd[d] = 0
           /\ \E x \in NearEntries(d, sd) : x # d /\ sd[x] # 0
           /\ chart_data.matched_val = <<0>>

-----------------------------------------------------------------------------
(* SpecCompare: the alignment of prepare_chart_data applied to three weekly    *)
(* series, short ones and ones longer than the comparison limit               *)

CompareLens == {0, 2, ComparisonLimit - 1, ComparisonLimit + 1}

\* A series of len consecutive weeks from start, the values alternating 0, 1
WeeklyRun(start, len) ==
    [i \in 1..len |-> [date |-> start + 7 * (i - 1), value |-> i % 2]]

\* OWID and NYT series are resampled (labels on Sundays); WHO dates are as reported.
ResampledRuns == {WeeklyRun(start, len) : start \in {7, 28}, len \in CompareLens}

ReportedRuns == {WeeklyRun(start, len) : start \in {3, 31}, len \in CompareLens}

InitCompare ==
    /\ pc = "compare"
    /\ chart_data \in [owid_series : ResampledRuns, who_series : ReportedRuns,
                        nyt_series : ResampledRuns]
    /\ save_raw = SAVE_RAW
    /\ country = US
    /\ owid_df = EmptyTable({})
    /\ who_df = EmptyTable({})
    /\ nyt_df = EmptyTable({})
    /\ df = <<>>
    /\ processed = NoResults
    /\ threshold = DefaultThreshold
    /\ analysis_results = NoResults
    /\ report = NoResults
    /\ raised = "none"
    /\ fetched = [s \in SeqRange(Sources) |-> 0]
    /\ rawFiles = {}
    /\ stages = <<>>
    /\ printed = <<>>
    /\ handled = 0
    /\ exitStatus = -1

CompareStep ==
    /\ pc = "compare"
    /\ chart_data' =
          chart_data @@
          [threeSourceComparison |->
              threeSourceComparison(chart_data.owid_series, chart_data.who_series,
                                    chart_data.nyt_series)]
    /\ pc' = "done"
    /\ UNCHANGED <<save_raw, country, owid_df, who_df, nyt_df, df, processed, threshold,
                   analysis_results, report, raised, fetched, rawFiles, stages, printed,
                   handled, exitStatus>>

NextCompare == CompareStep

SpecCompare == InitCompare /\ [][NextCompare]_vars

\* The candidate base dates of the chart data's three series, in ascending order
Candidates ==
    BaseDates(DictOf(chart_data.owid_series), DictOf(chart_data.who_series),
              DictOf(chart_data.nyt_series))

\* C28: in threeSourceComparison the arrays dates, weekNumbers, owid, who and nyt have
\* the same length, at most 200; dates holds the chronologically earliest candidate base
\* dates in strictly ascending order, without duplicates.
C28_ComparisonArrays ==
    ChartReturned =>
        LET c == chart_data.threeSourceComparison
            k == Len(c.dates)
        IN  /\ Len(c.weekNumbers) = k /\ Len(c.owid) = k
            /\ Len(c.who) = k /\ Len(c.nyt) = k
            /\ k <= 200
            /\ \A i, j \in 1..k : i < j => c.dates[i] < c.dates[j]
            /\ SeqRange(c.dates) \subseteq SeqRange(Candidates)
            /\ \A d \in SeqRange(Candidates) \ SeqRange(c.dates) :
                   k = 200 /\ d > c.dates[k]

\* More than 200 candidate base dates: the first 200 are kept.
C28_Witness ==
    /\ ChartReturned
    /\ Len(Candidates) > 200
    /\ Len(chart_data.threeSourceComparison.dates) = 200
    /\ chart_data.threeSourceComparison.dates[1] = Candidates[1]

AllThreeNonEmpty ==
    /\ chart_data.owid_series # <<>>
    /\ chart_data.who_series # <<>>
    /\ chart_data.nyt_series # <<>>

\* C29: when all three sources have non-empty weekly series, every comparison date has
\* an entry within 7 days in each of the three sources, and each aligned value is the
\* value of such an entry, not the no-match default.
C29_EveryComparisonDateMatched ==
    (ChartReturned /\ AllThreeNonEmpty) =>
        LET c == chart_data.threeSourceComparison
            Matched(series, aligned, i) ==
                \E e \in 1..Len(series) :
                    /\ Abs(series[e].date - c.dates[i]) <= 7
                    /\ aligned[i] = series[e].value
        IN  \A i \in 1..Len(c.dates) :
                /\ Matched(chart_data.owid_series, c.owid, i)
                /\ Matched(chart_data.who_series, c.who, i)
                /\ Matched(chart_data.nyt_series, c.nyt, i)

\* Three non-empty series of which one starts three weeks after another: some dates of
\* the series are left out, and a kept date is matched to an entry a week away.
C29_Witness ==
    /\ ChartReturned
    /\ AllThreeNonEmpty
    /\ LET c == chart_data.threeSourceComparison
           all == SeriesDates(chart_data.owid_series)
                  \cup SeriesDates(chart_data.who_series)
                  \cup SeriesDates(chart_data.nyt_series)
       IN  /\ c.dates # <<>>
           /\ all \ SeqRange(c.dates) # {}
           /\ \E i \in 1..Len(c.dates) :
                  c.dates[i] \notin SeriesDates(chart_data.owid_series)

-----------------------------------------------------------------------------
(* Properties of main (Spec) *)

AllExtracted ==
    /\ \A s \in SeqRange(Sources) : fetched[s] = 1 /\ s \in rawFiles
    /\ raised \notin {"FetchError", "OSError"}

CountryMatched ==
    /\ \E i \in 1..Len(owid_df.rows) :
           owid_df.rows[i].location = country_mapping(country).owid_name
    /\ \E i \in 1..Len(who_df.rows) :
           who_df.rows[i].Country = country_mapping(country).who_name

MainEnded == pc \in {<<"returned">>, <<"exited">>}

\* C3: when all three extractions succeed on well-formed tables, main runs processing,
\* then analysis, then dashboard generation, in that order, and reaches the
\* 'ANALYSIS COMPLETE' summary without exiting with failure status.
C3_WellFormedRunCompletes ==
    (MainEnded /\ AllExtracted /\ WellFormed /\ CountryMatched)
        => /\ stages = <<"process", "analysis", "dashboard">>
           /\ printed # <<>> /\ printed[Len(printed)] = <<"ANALYSIS COMPLETE!">>
           /\ exitStatus # 1

FetchFailed == raised = "FetchError"

\* The source whose fetch raised (named by the extractor's error message)
FailedSource == printed[1][2]

\* C4: a failed fetch is re-raised to the caller with no retry: every source is fetched
\* at most once, the sources after the failed one are not fetched, no raw file is
\* written for the failed source, and processing, analysis and dashboard never start.
C4_FetchFailureAborts ==
    /\ \A s \in SeqRange(Sources) : fetched[s] <= 1
    /\ FetchFailed =>
         /\ pc \in {<<"except">>, <<"exited">>}
         /\ fetched[FailedSource] = 1
         /\ FailedSource \notin rawFiles
         /\ \A s \in SeqRange(Sources) :
                SourceIndex(s) > SourceIndex(FailedSource)
                    => fetched[s] = 0 /\ s \notin rawFiles
         /\ stages = <<>>
         /\ df = <<>> /\ analysis_results = NoResults /\ chart_data = NoResults

C4_Witness ==
    /\ FetchFailed
    /\ pc = <<"exited">>
    /\ FailedSource = "who"
    /\ fetched = [s \in SeqRange(Sources) |-> IF s = "nyt" THEN 0 ELSE 1]
    /\ rawFiles = {"owid"}
    /\ owid_df.rows # <<>>

\* C5: an exception raised by a stage inside main is caught exactly once at the entry
\* point: its message is printed, no later stage is executed, and the process exits
\* with status 1.
C5_ExceptionCaughtOnceAtEntry ==
    /\ [](raised # "none" =>
            /\ pc \in {<<"except">>, <<"exited">>}
            /\ handled <= 1
            /\ pc = <<"exited">> => (handled = 1 /\ exitStatus = 1))
    /\ [][raised # "none" =>
            /\ handled = 0 /\ handled' = 1
            /\ printed' = Append(printed, <<"ERROR", raised>>)
            /\ exitStatus' = 1
            /\ pc' = <<"exited">>
            /\ stages' = stages /\ fetched' = fetched /\ rawFiles' = rawFiles
            /\ raised' = raised]_vars

C5_Witness ==
    /\ pc = <<"exited">>
    /\ raised = "TypeError"
    /\ AllExtracted
    /\ handled = 1
    /\ exitStatus = 1
    /\ printed = <<<<"ERROR", "TypeError">>>>


====
